---- MODULE Spec2Model ----
(***************************************************************************)
(* Federation core of the social server: HTTP signature signing and        *)
(* verification (src/src/middleware/httpSignature.js), the inbox activity  *)
(* processor (src/unnamed/part_002, routes/federation) and the outbound    *)
(* delivery helper (src/unnamed/part_000, deliverToInbox).                 *)
(*                                                                         *)
(* Text that the code scans character by character (the Signature header)  *)
(* is a sequence of tokens: [c |-> s] is the run of characters s, where    *)
(* the characters the parser looks for (comma, equals, quote, space) are   *)
(* always tokens of their own; [b64 |-> sig] is the base64 alphabet body   *)
(* of the signature bytes sig (its '=' padding follows as tokens).         *)
(* Text that is only built and compared (the signing string, header        *)
(* values) is a TLA+ string.                                               *)
(***************************************************************************)
EXTENDS Naturals, Sequences, FiniteSets, TLC

VARIABLES
    bypass,     \* NODE_ENV = 'development' and SKIP_SIGNATURE_VERIFICATION = 'true'
    follows,    \* the Follow table: row -> number of such rows
    posts,      \* the Post table: row -> number of such rows
    pend,       \* the inbox requests suspended in handleFollow at sendActivity
    last,       \* the inbox request answered last, with its answer
    dlv,        \* the deliverToInbox call in progress
    hist,       \* per (follower, following) pair: the activities processed since the pair had no row
    times,      \* per Note id: how often the inbox handler was run on a Create of it (counted to 2)
    fan,        \* a delivery of one activity to several inboxes, target by target
    codec,      \* a Signature header on its way through parseSignatureHeader and back
    flight,     \* the verifications in progress, each with the key lookup it is at
    twin        \* two inbox runs under comparison: a run that was marked and a later run like it

vars == <<bypass, follows, posts, pend, last, dlv, hist, times, fan, codec, flight, twin>>

----------------------------------------------------------------------------
(* Bounds of the model *)

\* inbox requests that can be suspended inside handleFollow at the same time
MaxPending == 1
\* rows of one kind the tables are allowed to hold before the model stops adding
MaxRows == 2

----------------------------------------------------------------------------
(* Actors, keys and the user table *)

AliceUrl == "http://local/users/alice"
BobUrl == "http://local/users/bob"
RitaUrl == "http://remote/users/rita"

\* prisma.user rows: registration stores actorUrl and a public key per user
Users == { [actorUrl |-> AliceUrl, publicKey |-> "pub:alice"],
           [actorUrl |-> BobUrl, publicKey |-> "pub:bob"] }

\* the private half of each stored public key
PrivateOf(pub) ==
    CASE pub = "pub:alice" -> "priv:alice"
      [] pub = "pub:bob" -> "priv:bob"
      [] OTHER -> "priv:none"

\* the key identifier the actor document publishes: `${user.actorUrl}#main-key`
PublishedKeyId(actorUrl) == actorUrl \o "#main-key"

----------------------------------------------------------------------------
(* crypto.sign / crypto.verify, symbolically: a signature is the pair of   *)
(* the private key that made it and the bytes it was made over.            *)

\* keys crypto.sign accepts as `key: privateKey` with no passphrase
UsableKeys == {"priv:alice", "priv:bob", "priv:server"}

NoSig == [by |-> "nobody", over |-> ""]

CryptoSign(privateKey, data) == [by |-> privateKey, over |-> data]

CryptoVerify(publicKey, data, sig) ==
    sig.by = PrivateOf(publicKey) /\ sig.over = data

\* the default `body = ''` of createSignature's options
NoBody == [id |-> ""]

\* JSON.stringify(body) hashed with SHA-256, base64: one digest per activity
BodyHash(body) == "sha256(" \o body.id \o ")"

----------------------------------------------------------------------------
(* Strings *)

\* String.prototype.toLowerCase on the names and methods the model uses
ToLowerCase(s) ==
    CASE s = "POST" -> "post"
      [] s = "GET" -> "get"
      [] s = "Host" -> "host"
      [] s = "Date" -> "date"
      [] s = "Digest" -> "digest"
      [] OTHER -> s

RECURSIVE JoinWith(_, _)
\* Array.prototype.join(sep) on an array of strings
JoinWith(parts, sep) ==
    IF parts = <<>> THEN ""
    ELSE IF Len(parts) = 1 THEN parts[1]
    ELSE parts[1] \o sep \o JoinWith(Tail(parts), sep)

----------------------------------------------------------------------------
(* Token text *)

Ch(c) == [c |-> c]
Comma == Ch(",")
Equals == Ch("=")
Quote == Ch("\"")
Space == Ch(" ")

IsB64(tok) == DOMAIN tok = {"b64"}

RECURSIVE SplitOn(_, _)
\* String.prototype.split(sep): the pieces between the separators
SplitOn(text, sep) ==
    IF \A i \in 1..Len(text) : text[i] # sep THEN <<text>>
    ELSE LET i == CHOOSE k \in 1..Len(text) :
                      text[k] = sep /\ \A j \in 1..(k - 1) : text[j] # sep
         IN <<SubSeq(text, 1, i - 1)>> \o SplitOn(SubSeq(text, i + 1, Len(text)), sep)

RECURSIVE Trim(_)
\* String.prototype.trim
Trim(text) ==
    IF text # <<>> /\ Head(text) = Space THEN Trim(Tail(text))
    ELSE IF text # <<>> /\ text[Len(text)] = Space THEN Trim(SubSeq(text, 1, Len(text) - 1))
    ELSE text

\* value.replace(/^"/, '').replace(/"$/, '')
StripQuotes(text) ==
    LET a == IF text # <<>> /\ Head(text) = Quote THEN Tail(text) ELSE text
    IN IF a # <<>> /\ a[Len(a)] = Quote THEN SubSeq(a, 1, Len(a) - 1) ELSE a

RECURSIVE AsString(_)
\* the characters of a token text as one string (a base64 body reads as "<b64>")
AsString(text) ==
    IF text = <<>> THEN ""
    ELSE (IF IsB64(Head(text)) THEN "<b64>" ELSE Head(text).c) \o AsString(Tail(text))

RECURSIVE Words(_)
\* the tokens of a space separated list of words
Words(names) ==
    IF names = <<>> THEN <<>>
    ELSE IF Len(names) = 1 THEN <<Ch(names[1])>>
    ELSE <<Ch(names[1]), Space>> \o Words(Tail(names))

\* Buffer.toString('base64') of signature bytes: 256 bytes give 342 characters
\* of the base64 alphabet and two '=' of padding
Base64Encode(sig) == <<[b64 |-> sig], Equals, Equals>>

\* Buffer.from(text, 'base64'): padding is optional, anything that is not
\* base64 of a signature decodes to bytes that are no signature
Base64Decode(text) ==
    IF text # <<>> /\ IsB64(Head(text))
          /\ \A i \in 2..Len(text) : text[i] = Equals
    THEN Head(text).b64
    ELSE NoSig

----------------------------------------------------------------------------
(* Signature codec and verifier: src/src/middleware/httpSignature.js *)

RECURSIVE ParsePairs(_, _)
\* the forEach over headerValue.split(','): a later pair overwrites an earlier
\* one of the same key; a pair with an empty key or no value is skipped
ParsePairs(pairs, signature) ==
    IF pairs = <<>> THEN signature
    ELSE LET kv == SplitOn(Head(pairs), Equals)
             key == kv[1]
             hasValue == Len(kv) >= 2 /\ kv[2] # <<>>
             entry == AsString(Trim(key)) :> StripQuotes(Trim(kv[2]))
         IN ParsePairs(Tail(pairs),
                       IF key # <<>> /\ hasValue THEN entry @@ signature ELSE signature)

\* parseSignatureHeader: null for a missing (or empty) header, otherwise the
\* object of the parsed parameters
parseSignatureHeader(header) ==
    IF header = <<>> THEN [isNull |-> TRUE, params |-> <<>>]
    ELSE LET prefixed == Len(header) >= 2 /\ header[1] = Ch("Signature") /\ header[2] = Space
             headerValue == IF prefixed THEN SubSeq(header, 3, Len(header)) ELSE header
         IN [isNull |-> FALSE, params |-> ParsePairs(SplitOn(headerValue, Comma), <<>>)]

requiredParams == <<"keyId", "algorithm", "headers", "signature">>

\* !signature[param]
ParamMissing(params, param) == param \notin DOMAIN params \/ params[param] = <<>>

\* req.get(name): the request's header of that (lower-cased) name
HasHeader(req, name) == name \in DOMAIN req.headers

\* !req.get(name): absent, or present with the empty string as value
HeaderFalsy(req, name) == ~HasHeader(req, name) \/ req.headers[name] = ""

\* signature.headers.split(' ')
HeaderNames(text) ==
    LET parts == SplitOn(text, Space)
    IN [i \in 1..Len(parts) |-> AsString(parts[i])]

\* one line of the signing string rebuilt by the verifier (lines 56-64)
VerifierLine(req, header) ==
    IF header = "(request-target)"
    THEN "(request-target): " \o ToLowerCase(req.method) \o " " \o req.path
    ELSE ToLowerCase(header) \o ": " \o req.headers[ToLowerCase(header)]

Failed(message) == [verified |-> FALSE, keyId |-> "", error |-> message]

\* prisma.user.findFirst({ where: { actorUrl: keyId } })
FindUserByActorUrl(keyId) == { u \in Users : u.actorUrl = keyId }

\* a verifier that also hashes the received body and compares the hash with
\* the Digest header
verifySignature_ChecksDigest(req) ==
    LET signature == parseSignatureHeader(req.signature)
        params == signature.params
        missing == { i \in 1..Len(requiredParams) : ParamMissing(params, requiredParams[i]) }
        firstMissing == CHOOSE i \in missing : \A j \in missing : i <= j
        keyId == AsString(params["keyId"])
        found == FindUserByActorUrl(keyId)
        actor == CHOOSE u \in found : TRUE
        headersToSign == HeaderNames(params["headers"])
        absent == { i \in 1..Len(headersToSign) :
                      /\ headersToSign[i] # "(request-target)"
                      /\ HeaderFalsy(req, ToLowerCase(headersToSign[i])) }
        firstAbsent == CHOOSE i \in absent : \A j \in absent : i <= j
        signingString ==
            JoinWith([i \in 1..Len(headersToSign) |-> VerifierLine(req, headersToSign[i])], "\n")
        isValid == CryptoVerify(actor.publicKey, signingString,
                                Base64Decode(params["signature"]))
    IN IF signature.isNull THEN Failed("No signature header")
       ELSE IF missing # {}
       THEN Failed("Missing required signature parameter: " \o requiredParams[firstMissing])
       ELSE IF found = {} \/ actor.publicKey = ""
       THEN Failed("Actor not found or has no public key: " \o keyId)
       ELSE IF absent # {}
       THEN Failed("Missing required header in signature: " \o headersToSign[firstAbsent])
       ELSE IF ~isValid THEN Failed("Invalid signature")
       ELSE IF HasHeader(req, "digest") /\ req.headers["digest"] # "SHA-256=" \o BodyHash(req.body)
       THEN Failed("Digest mismatch")
       ELSE [verified |-> TRUE, keyId |-> keyId, error |-> ""]

\* verifySignature: the first failing step decides the error
verifySignature(req) ==
    LET signature == parseSignatureHeader(req.signature)
        params == signature.params
        missing == { i \in 1..Len(requiredParams) : ParamMissing(params, requiredParams[i]) }
        firstMissing == CHOOSE i \in missing : \A j \in missing : i <= j
        keyId == AsString(params["keyId"])
        found == FindUserByActorUrl(keyId)
        actor == CHOOSE u \in found : TRUE
        headersToSign == HeaderNames(params["headers"])
        absent == { i \in 1..Len(headersToSign) :
                      /\ headersToSign[i] # "(request-target)"
                      /\ HeaderFalsy(req, ToLowerCase(headersToSign[i])) }
        firstAbsent == CHOOSE i \in absent : \A j \in absent : i <= j
        signingString ==
            JoinWith([i \in 1..Len(headersToSign) |-> VerifierLine(req, headersToSign[i])], "\n")
        isValid == CryptoVerify(actor.publicKey, signingString,
                                Base64Decode(params["signature"]))
    IN IF signature.isNull THEN Failed("No signature header")
       ELSE IF missing # {}
       THEN Failed("Missing required signature parameter: " \o requiredParams[firstMissing])
       ELSE IF found = {} \/ actor.publicKey = ""
       THEN Failed("Actor not found or has no public key: " \o keyId)
       ELSE IF absent # {}
       THEN Failed("Missing required header in signature: " \o headersToSign[firstAbsent])
       ELSE IF ~isValid THEN Failed("Invalid signature")
       ELSE [verified |-> TRUE, keyId |-> keyId, error |-> ""]

----------------------------------------------------------------------------
(* Signer: createSignature, src/src/middleware/httpSignature.js:123-180 *)

\* the characters of a keyId as token text
KeyIdText(keyId) ==
    IF keyId = "k=v" THEN <<Ch("k"), Equals, Ch("v")>> ELSE <<Ch(keyId)>>

\* `${headers[header]}`: an absent property prints as "undefined"
Printed(headers, name) == IF name \in DOMAIN headers THEN headers[name] ELSE "undefined"

\* createSignature(privateKey, keyId, { method, url, headers, body }) at clock
\* time `now`; threw is the rejection of crypto.sign
createSignature(privateKey, keyId, options, now) ==
    LET method == options.method
        url == options.url
        dated == IF "date" \notin DOMAIN options.headers \/ options.headers["date"] = ""
                 THEN ("date" :> now) @@ options.headers
                 ELSE options.headers
        headers == IF method \in {"POST", "PUT", "post", "put"} /\ options.body # NoBody
                   THEN ("digest" :> ("SHA-256=" \o BodyHash(options.body))) @@ dated
                   ELSE dated
        headersToSign == <<"(request-target)", "host", "date">>
                            \o (IF "digest" \in DOMAIN headers THEN <<"digest">> ELSE <<>>)
        line(header) ==
            IF header = "(request-target)"
            THEN "(request-target): " \o ToLowerCase(method) \o " " \o url.pathname \o url.search
            ELSE header \o ": " \o Printed(headers, header)
        signingString == JoinWith([i \in 1..Len(headersToSign) |-> line(headersToSign[i])], "\n")
        signature == CryptoSign(privateKey, signingString)
        signatureHeader ==
            <<Ch("keyId"), Equals, Quote>> \o KeyIdText(keyId)
              \o <<Quote, Comma, Ch("algorithm"), Equals, Quote, Ch("rsa-sha256")>>
              \o <<Quote, Comma, Ch("headers"), Equals, Quote>> \o Words(headersToSign)
              \o <<Quote, Comma, Ch("signature"), Equals, Quote>>
              \o Base64Encode(signature) \o <<Quote>>
    IN [threw |-> privateKey \notin UsableKeys,
        signature |-> signatureHeader,
        headers |-> ("content-type" :> "application/activity+json")
                      @@ ("accept" :> "application/activity+json") @@ headers]

----------------------------------------------------------------------------
(* Activities: the JSON bodies the inbox reads *)

PublicUri == "https://www.w3.org/ns/activitystreams#Public"

\* what reading a property that the JSON object does not have gives
Undefined == "<undefined>"

Prop(o, f) == IF f \in DOMAIN o THEN o[f] ELSE Undefined

HasProp(o, f) == f \in DOMAIN o

\* a JSON string that names an object by its URI
UriRef(uri) == [uri |-> uri]

IsUriRef(o) == DOMAIN o = {"uri"}

FollowActivity(id, follower, following) ==
    [id |-> id, type |-> "Follow", actor |-> follower, object |-> UriRef(following)]

\* Accept, Reject and Undo carry the Follow they answer as their object
AboutFollow(id, type, actor, follow) ==
    [id |-> id, type |-> type, actor |-> actor, object |-> follow]

Note(id, to) == [type |-> "Note", id |-> id, content |-> "hello", to |-> to]

\* a Note whose JSON has no `to`
NoteWithoutTo(id) == [type |-> "Note", id |-> id, content |-> "hello"]

CreateActivity(id, actor, object) ==
    [id |-> id, type |-> "Create", actor |-> actor, object |-> object]

----------------------------------------------------------------------------
(* The Follow and Post tables.  A table is a bag of rows: a function from  *)
(* the rows it holds to how many of each it holds.                         *)

EmptyTable == <<>>

Count(table, row) == IF row \in DOMAIN table THEN table[row] ELSE 0

Insert(table, row) == (row :> (Count(table, row) + 1)) @@ table

\* a `where` value of undefined is no filter at all (Prisma)
Matches(row, followerId, followingId) ==
    /\ followerId = Undefined \/ row.followerId = followerId
    /\ followingId = Undefined \/ row.followingId = followingId

RowsOfPair(table, followerId, followingId) ==
    { r \in DOMAIN table : r.followerId = followerId /\ r.followingId = followingId }

RECURSIVE SumCounts(_, _)
SumCounts(table, rows) ==
    IF rows = {} THEN 0
    ELSE LET r == CHOOSE x \in rows : TRUE
         IN table[r] + SumCounts(table, rows \ {r})

\* how many rows the table holds for the pair
PairCount(table, followerId, followingId) ==
    SumCounts(table, RowsOfPair(table, followerId, followingId))

\* how many Post rows have the id
PostCount(table, id) == SumCounts(table, { r \in DOMAIN table : r.id = id })

\* a Follow table with no key on the pair: create always adds the row
FollowCreate_NoPairKey(table, row) == [threw |-> FALSE, table |-> Insert(table, row)]

\* prisma.follow.create: the table is keyed by (followerId, followingId), a
\* second row for a pair is refused with a unique constraint error
FollowCreate(table, row) ==
    IF PairCount(table, row.followerId, row.followingId) > 0
    THEN [threw |-> TRUE, table |-> table]
    ELSE [threw |-> FALSE, table |-> Insert(table, row)]

\* prisma.follow.deleteMany({ where: { followerId, followingId } })
FollowDeleteMany(table, followerId, followingId) ==
    [r \in { x \in DOMAIN table : ~Matches(x, followerId, followingId) } |-> table[r]]

\* prisma.follow.updateMany({ where: {...}, data: { status: 'ACCEPTED' } })
FollowUpdateMany(table, followerId, followingId) ==
    LET updated(r) == IF Matches(r, followerId, followingId)
                      THEN [r EXCEPT !.status = "ACCEPTED"] ELSE r
        rows == { updated(r) : r \in DOMAIN table }
    IN [n \in rows |-> SumCounts(table, { r \in DOMAIN table : updated(r) = n })]

\* prisma.post.create: id is the table's unique key (routes/posts.js looks a
\* post up with findUnique({ where: { id } })), a second row is refused
PostCreate(table, row) ==
    IF PostCount(table, row.id) > 0
    THEN [threw |-> TRUE, table |-> table]
    ELSE [threw |-> FALSE, table |-> Insert(table, row)]

----------------------------------------------------------------------------
(* Inbox handlers: src/unnamed/part_002:181-267.  Each gives the tables    *)
(* after its store call and whether it threw.                              *)

Threw(F, P) == [threw |-> TRUE, follows |-> F, posts |-> P]
Returned(F, P) == [threw |-> FALSE, follows |-> F, posts |-> P]

\* handleFollow up to its await of sendActivity: the row is written first
handleFollow(activity, F, P) ==
    IF ~HasProp(activity, "object") \/ ~IsUriRef(activity.object)
    THEN Threw(F, P)
    ELSE LET created == FollowCreate(F, [followerId |-> activity.actor,
                                         followingId |-> activity.object.uri,
                                         status |-> "PENDING"])
         IN [threw |-> created.threw, follows |-> created.table, posts |-> P]

\* handleCreate: object.to.includes(...) throws when the Note has no `to`
handleCreate(activity, F, P) ==
    IF ~HasProp(activity, "object") THEN Threw(F, P)
    ELSE LET object == activity.object
         IN IF Prop(object, "type") # "Note" THEN Returned(F, P)
            ELSE IF ~HasProp(object, "to") THEN Threw(F, P)
            ELSE LET created ==
                         PostCreate(P, [id |-> object.id,
                                        isPublic |-> \E i \in 1..Len(object.to) :
                                                          object.to[i] = PublicUri])
                 IN [threw |-> created.threw, follows |-> F, posts |-> created.table]

\* object.object of the Follow carried by an Accept, Reject or Undo
FollowingOf(object) ==
    IF HasProp(object, "object") THEN Prop(object.object, "uri") ELSE Undefined

handleUndo(activity, F, P) ==
    IF ~HasProp(activity, "object") THEN Threw(F, P)
    ELSE LET object == activity.object
         IN IF Prop(object, "type") # "Follow" THEN Returned(F, P)
            ELSE Returned(FollowDeleteMany(F, Prop(object, "actor"), FollowingOf(object)), P)

\* an Accept handler that leaves the row PENDING
handleAccept_NoUpdate(activity, F, P) ==
    IF ~HasProp(activity, "object") THEN Threw(F, P) ELSE Returned(F, P)

handleAccept(activity, F, P) ==
    IF ~HasProp(activity, "object") THEN Threw(F, P)
    ELSE LET object == activity.object
         IN IF Prop(object, "type") # "Follow" THEN Returned(F, P)
            ELSE Returned(FollowUpdateMany(F, Prop(object, "actor"), FollowingOf(object)), P)

handleReject(activity, F, P) ==
    IF ~HasProp(activity, "object") THEN Threw(F, P)
    ELSE LET object == activity.object
         IN IF Prop(object, "type") # "Follow" THEN Returned(F, P)
            ELSE Returned(FollowDeleteMany(F, Prop(object, "actor"), FollowingOf(object)), P)

\* a switch whose default branch rejects the activity
Dispatch_DefaultThrows(activity, F, P) ==
    LET type == Prop(activity, "type")
    IN CASE type = "Follow" -> handleFollow(activity, F, P)
         [] type = "Create" -> handleCreate(activity, F, P)
         [] type = "Undo" -> handleUndo(activity, F, P)
         [] type = "Accept" -> handleAccept(activity, F, P)
         [] type = "Reject" -> handleReject(activity, F, P)
         [] OTHER -> Threw(F, P)

\* the switch on activity.type of router.post('/inbox')
Dispatch(activity, F, P) ==
    LET type == Prop(activity, "type")
    IN CASE type = "Follow" -> handleFollow(activity, F, P)
         [] type = "Create" -> handleCreate(activity, F, P)
         [] type = "Undo" -> handleUndo(activity, F, P)
         [] type = "Accept" -> handleAccept(activity, F, P)
         [] type = "Reject" -> handleReject(activity, F, P)
         [] OTHER -> Returned(F, P)

----------------------------------------------------------------------------
(* The middleware: httpSignature, src/src/middleware/httpSignature.js:100-120 *)

NotRun == [verified |-> FALSE, keyId |-> "", error |-> "<not run>"]

\* a middleware that sends the 401 without returning: next() is still called
httpSignature_NoReturn(req, skip) ==
    LET result == verifySignature(req)
    IN [next |-> TRUE, result |-> IF skip THEN NotRun ELSE result, status |-> 0,
        error |-> "", details |-> ""]

\* a middleware whose catch answers 500 for a failure that is not a mismatch
httpSignature_Answers500(req, skip) ==
    LET result == verifySignature(req)
    IN IF skip THEN [next |-> TRUE, result |-> NotRun, status |-> 0, error |-> "", details |-> ""]
       ELSE IF result.verified
       THEN [next |-> TRUE, result |-> result, status |-> 0, error |-> "", details |-> ""]
       ELSE [next |-> FALSE, result |-> result,
             status |-> IF result.error = "Invalid signature" THEN 401 ELSE 500,
             error |-> "Invalid signature", details |-> result.error]

\* next: whether the route's handler runs; otherwise the 401 that is sent
httpSignature(req, skip) ==
    IF skip THEN [next |-> TRUE, result |-> NotRun, status |-> 0, error |-> "", details |-> ""]
    ELSE LET result == verifySignature(req)
         IN IF ~result.verified
            THEN [next |-> FALSE, result |-> result, status |-> 401,
                  error |-> "Invalid signature", details |-> result.error]
            ELSE [next |-> TRUE, result |-> result, status |-> 0, error |-> "", details |-> ""]

----------------------------------------------------------------------------
(* Requests that reach the inbox *)

NoRequest == [method |-> "", path |-> "", search |-> "", headers |-> <<>>,
              signature |-> <<>>, body |-> NoBody]

\* an unsigned POST /inbox as a remote server sends it
InboundRequest(body, host, date) ==
    [method |-> "POST", path |-> "/inbox", search |-> "",
     headers |-> ("host" :> host) @@ ("date" :> date)
                   @@ ("digest" :> ("SHA-256=" \o BodyHash(body))),
     signature |-> <<>>, body |-> body]

\* a line of the signing string as a remote signer builds it:
\* "<lowercased name>: <value>", (request-target) from method, path and query
PeerLine(req, header) ==
    IF header = "(request-target)"
    THEN "(request-target): " \o ToLowerCase(req.method) \o " " \o req.path \o req.search
    ELSE ToLowerCase(header) \o ": " \o Printed(req.headers, ToLowerCase(header))

\* the Signature header of a remote signer for the listed headers
PeerSignature(req, privateKey, keyId, names) ==
    LET signingString == JoinWith([i \in 1..Len(names) |-> PeerLine(req, names[i])], "\n")
    IN <<Ch("keyId"), Equals, Quote>> \o KeyIdText(keyId)
         \o <<Quote, Comma, Ch("algorithm"), Equals, Quote, Ch("rsa-sha256")>>
         \o <<Quote, Comma, Ch("headers"), Equals, Quote>> \o Words(names)
         \o <<Quote, Comma, Ch("signature"), Equals, Quote>>
         \o Base64Encode(CryptoSign(privateKey, signingString)) \o <<Quote>>

PeerSigned(req, privateKey, keyId, names) ==
    [req EXCEPT !.signature = PeerSignature(req, privateKey, keyId, names)]

StandardNames == <<"(request-target)", "host", "date", "digest">>

----------------------------------------------------------------------------
(* The inbox route: router.post('/inbox', httpSignature(), ...),           *)
(* src/unnamed/part_002:108-138                                            *)

NoResponse ==
    [req |-> NoRequest, origin |-> NoRequest, result |-> NotRun, ran |-> FALSE,
     status |-> 0, error |-> "", details |-> "", wrote |-> FALSE, posted |-> FALSE]

Pairs == { <<RitaUrl, AliceUrl>>, <<RitaUrl, BobUrl>> }

\* the pair a Follow, Accept, Reject or Undo is about; <<>> for anything else
PairOf(activity) ==
    LET type == Prop(activity, "type")
    IN IF ~HasProp(activity, "object") THEN <<>>
       ELSE IF type = "Follow" /\ IsUriRef(activity.object)
       THEN <<activity.actor, activity.object.uri>>
       ELSE IF type \in {"Accept", "Reject", "Undo"} /\ Prop(activity.object, "type") = "Follow"
       THEN <<Prop(activity.object, "actor"), FollowingOf(activity.object)>>
       ELSE <<>>

\* the rows of a pair, as the set of <<status, count>>
PairRows(table, pair) ==
    { <<r.status, table[r]>> : r \in RowsOfPair(table, pair[1], pair[2]) }

\* the record of what was processed for each pair since it last had no row:
\* "none" (no row), "F" (a Follow), "FA" (a Follow, then an Accept),
\* "FAU" (then an Undo: no row again), "other" (any other sequence)
NextHist(h, activity, F, G) ==
    LET type == Prop(activity, "type")
        about == PairOf(activity)
        step(pair) ==
            LET fresh == h[pair] \in {"none", "FAU"}
            IN CASE type = "Follow" /\ fresh -> "F"
                 [] type = "Accept" /\ h[pair] = "F" -> "FA"
                 [] type = "Undo" /\ h[pair] = "FA" -> "FAU"
                 [] type \in {"Accept", "Reject", "Undo"} /\ fresh -> "none"
                 [] OTHER -> IF PairCount(G, pair[1], pair[2]) = 0 THEN "none" ELSE "other"
    IN [pair \in Pairs |->
          IF pair = about THEN step(pair)
          ELSE IF PairRows(F, pair) = PairRows(G, pair) THEN h[pair]
          ELSE IF PairCount(G, pair[1], pair[2]) = 0 THEN "none" ELSE "other"]

PendingCount == SumCounts(pend, DOMAIN pend)

Remove(table, row) ==
    IF table[row] = 1 THEN [r \in DOMAIN table \ {row} |-> table[r]]
    ELSE [table EXCEPT ![row] = @ - 1]

\* an inbox route that answers 403 unless the verified keyId is the
\* activity's actor
Inbox_ActorMustSign(req, origin) ==
    LET mw == httpSignature(req, bypass)
        activity == req.body
        out == Dispatch(activity, follows, posts)
        wrote == out.follows # follows \/ out.posts # posts
        suspended == Prop(activity, "type") = "Follow" /\ ~out.threw
    IN IF ~mw.next
       THEN /\ last' = [req |-> req, origin |-> origin, result |-> mw.result, ran |-> FALSE,
                        status |-> mw.status, error |-> mw.error, details |-> mw.details,
                        wrote |-> FALSE, posted |-> FALSE]
            /\ UNCHANGED <<bypass, follows, posts, pend, hist>>
       ELSE IF mw.result.verified /\ mw.result.keyId # Prop(activity, "actor")
       THEN /\ last' = [req |-> req, origin |-> origin, result |-> mw.result, ran |-> FALSE,
                        status |-> 403, error |-> "Actor does not own the key", details |-> "",
                        wrote |-> FALSE, posted |-> FALSE]
            /\ UNCHANGED <<bypass, follows, posts, pend, hist>>
       ELSE /\ suspended => PendingCount < MaxPending
            /\ \A r \in DOMAIN out.follows : out.follows[r] <= MaxRows
            /\ \A r \in DOMAIN out.posts : out.posts[r] <= MaxRows
            /\ follows' = out.follows
            /\ posts' = out.posts
            /\ hist' = IF out.threw THEN hist ELSE NextHist(hist, activity, follows, out.follows)
            /\ IF suspended
               THEN /\ pend' = Insert(pend, [req |-> req, result |-> mw.result])
                    /\ last' = last
               ELSE /\ pend' = pend
                    /\ last' = [req |-> req, origin |-> origin, result |-> mw.result,
                                ran |-> TRUE, status |-> IF out.threw THEN 500 ELSE 202,
                                error |-> IF out.threw THEN "Failed to process activity" ELSE "",
                                details |-> "", wrote |-> wrote, posted |-> FALSE]
            /\ UNCHANGED bypass

\* One request to POST /inbox, from the middleware to the answer, or, for a
\* Follow whose row was written, to the await of sendActivity.
\* origin is the request as its signer made it.
Inbox(req, origin) ==
    LET mw == httpSignature(req, bypass)
        activity == req.body
        out == Dispatch(activity, follows, posts)
        wrote == out.follows # follows \/ out.posts # posts
        suspended == Prop(activity, "type") = "Follow" /\ ~out.threw
    IN IF ~mw.next
       THEN /\ last' = [req |-> req, origin |-> origin, result |-> mw.result, ran |-> FALSE,
                        status |-> mw.status, error |-> mw.error, details |-> mw.details,
                        wrote |-> FALSE, posted |-> FALSE]
            /\ UNCHANGED <<bypass, follows, posts, pend, hist>>
       ELSE /\ suspended => PendingCount < MaxPending
            /\ \A r \in DOMAIN out.follows : out.follows[r] <= MaxRows
            /\ \A r \in DOMAIN out.posts : out.posts[r] <= MaxRows
            /\ follows' = out.follows
            /\ posts' = out.posts
            /\ hist' = IF out.threw THEN hist ELSE NextHist(hist, activity, follows, out.follows)
            /\ IF suspended
               THEN /\ pend' = Insert(pend, [req |-> req, result |-> mw.result])
                    /\ last' = last
               ELSE /\ pend' = pend
                    /\ last' = [req |-> req, origin |-> origin, result |-> mw.result,
                                ran |-> TRUE, status |-> IF out.threw THEN 500 ELSE 202,
                                error |-> IF out.threw THEN "Failed to process activity" ELSE "",
                                details |-> "", wrote |-> wrote, posted |-> FALSE]
            /\ UNCHANGED bypass

----------------------------------------------------------------------------
(* sendActivity, src/unnamed/part_002:292-309, as handleFollow calls it    *)
(* (lines 195-204)                                                         *)

ServerDomain == "http://local"
ServerPrivateKey == "priv:server"

Dates == {"d1", "d2"}

\* new URL(inbox) for `${to}/inbox`
InboxUrlOf(to) ==
    CASE to = RitaUrl -> [host |-> "remote", pathname |-> "/users/rita/inbox", search |-> ""]
      [] to = AliceUrl -> [host |-> "local", pathname |-> "/users/alice/inbox", search |-> ""]
      [] OTHER -> [host |-> "local", pathname |-> "/users/bob/inbox", search |-> ""]

\* what the remote end of an HTTP request does: it answers with a status,
\* or the request ends in a network error
Response(status) == [kind |-> "response", status |-> status]
NetworkError == [kind |-> "error", status |-> 0]
Answers == { Response(200), Response(202), Response(401), Response(403),
             Response(500), Response(503), NetworkError }

\* axios's default validateStatus
DefaultValidateStatus(status) == status >= 200 /\ status < 300

\* The rest of handleFollow for a suspended request: the Accept is built
\* (crypto.randomUUID needs the runtime's global crypto: the module requires
\* none), signed with the server key and posted; a throw is answered 500.
SendActivity(p, answer, now, globalCrypto) ==
    LET activity == p.req.body
        accept == [id |-> "accept:" \o activity.id, type |-> "Accept",
                   actor |-> activity.object.uri, object |-> activity]
        inbox == InboxUrlOf(activity.actor)
        signed == createSignature(ServerPrivateKey, ServerDomain \o "/actor",
                                  [method |-> "POST", url |-> inbox, headers |-> <<>>,
                                   body |-> accept], now)
        posted == globalCrypto /\ ~signed.threw
        threw == ~posted \/ answer.kind = "error" \/ ~DefaultValidateStatus(answer.status)
    IN /\ p \in DOMAIN pend
       /\ pend' = Remove(pend, p)
       /\ last' = [req |-> p.req, origin |-> p.req, result |-> p.result, ran |-> TRUE,
                   status |-> IF threw THEN 500 ELSE 202,
                   error |-> IF threw THEN "Failed to process activity" ELSE "",
                   details |-> "", wrote |-> TRUE, posted |-> posted]
       /\ UNCHANGED <<bypass, follows, posts, dlv, hist>>

----------------------------------------------------------------------------
(* The requests the inbox model is run on *)

FollowA == FollowActivity("follow-a", RitaUrl, AliceUrl)
FollowB == FollowActivity("follow-b", RitaUrl, BobUrl)
Followers == "http://remote/users/rita/followers"

Activities ==
    { FollowA, FollowB,
      AboutFollow("accept-a", "Accept", AliceUrl, FollowA),
      AboutFollow("reject-a", "Reject", AliceUrl, FollowA),
      AboutFollow("undo-a", "Undo", RitaUrl, FollowA),
      AboutFollow("undo-b", "Undo", RitaUrl, FollowB) }
      \cup { CreateActivity("create-1", RitaUrl, Note("note-1", <<PublicUri>>)),
             CreateActivity("create-2", RitaUrl, Note("note-2", <<Followers>>)),
             CreateActivity("create-3", RitaUrl, NoteWithoutTo("note-3")),
             [id |-> "like-1", type |-> "Like", actor |-> RitaUrl, object |-> UriRef("note-1")],
             [id |-> "untyped-1", actor |-> RitaUrl, object |-> UriRef("note-1")],
             [id |-> "undo-0", type |-> "Undo", actor |-> RitaUrl] }

\* each activity unsigned, signed by alice under her keyId, and signed by
\* bob under alice's keyId
InboxRequests ==
    UNION { { InboundRequest(a, "local", "d1"),
              PeerSigned(InboundRequest(a, "local", "d1"), "priv:alice", AliceUrl, StandardNames),
              PeerSigned(InboundRequest(a, "local", "d1"), "priv:bob", AliceUrl, StandardNames) }
            : a \in Activities }

NoteIds == {"note-1", "note-2", "note-3"}

NoResult == [success |-> FALSE, status |-> 0, error |-> ""]

NoDelivery ==
    [pc |-> "idle", keyId |-> "", privateKey |-> "", wire |-> NoRequest, attempts |-> 0,
     answer |-> NetworkError, result |-> NoResult]

\* no delivery to several inboxes has been started
NoFanOut == [pc |-> "idle", privateKey |-> "", at |-> 1, answers |-> <<>>, results |-> <<>>]

\* no header has been given to the codec
NoCodec == [pc |-> "idle", header |-> <<>>, params |-> <<>>, encoded |-> <<>>]

\* no verification is in progress
NoFlight == <<>>

\* a run of the inbox as it is compared with another: the request, the
\* middleware's result, and the tables before and after it
NoRun == [req |-> NoRequest, result |-> NotRun, pre |-> <<>>, post |-> <<>>]

\* no run has been marked
NoTwin == [first |-> NoRun, second |-> NoRun]

Init ==
    /\ bypass \in BOOLEAN
    /\ follows = EmptyTable
    /\ posts = EmptyTable
    /\ pend = EmptyTable
    /\ last = NoResponse
    /\ dlv = NoDelivery
    /\ hist = [pair \in Pairs |-> "none"]
    /\ times = [n \in NoteIds |-> 0]
    /\ fan = NoFanOut
    /\ codec = NoCodec
    /\ flight = NoFlight
    /\ twin = NoTwin

Receive == \E req \in InboxRequests : Inbox(req, req) /\ UNCHANGED <<dlv, times, fan, codec, flight, twin>>

FollowUp ==
    \E p \in DOMAIN pend, answer \in Answers, globalCrypto \in BOOLEAN :
        SendActivity(p, answer, "d1", globalCrypto) /\ UNCHANGED <<times, fan, codec, flight, twin>>

Next == Receive \/ FollowUp

Spec == Init /\ [][Next]_vars

----------------------------------------------------------------------------
(* Replays of Create: the inbox on Create activities only, counting how    *)
(* often the handler ran on each Note                                      *)

IsCreateNote(activity) ==
    /\ Prop(activity, "type") = "Create"
    /\ HasProp(activity, "object")
    /\ Prop(activity.object, "type") = "Note"

CreateRequests == { req \in InboxRequests : Prop(req.body, "type") = "Create" }

ReceiveCreate ==
    \E req \in CreateRequests :
        /\ Inbox(req, req)
        /\ times' = IF httpSignature(req, bypass).next /\ IsCreateNote(req.body)
                          /\ times[req.body.object.id] < 2
                    THEN [times EXCEPT ![req.body.object.id] = @ + 1]
                    ELSE times
        /\ UNCHANGED <<dlv, fan, codec, flight, twin>>

NextCreate == ReceiveCreate

SpecCreate == Init /\ [][NextCreate]_vars

----------------------------------------------------------------------------
(* Verification alone: requests to the inbox as remote signers make them,  *)
(* with the Signature header in the shapes that arrive, and with headers   *)
(* changed between the signer and the inbox.  The body is a Like, which no *)
(* handler stores.                                                         *)

LikeActivity == [id |-> "like-1", type |-> "Like", actor |-> RitaUrl, object |-> UriRef("note-1")]

VerifyKeyIds == { AliceUrl, PublishedKeyId(AliceUrl), RitaUrl }
VerifyKeys == { "priv:alice", "priv:bob" }
VerifyNames == { StandardNames, <<"(request-target)", "Host", "date">> }

\* a request as a remote signer signed it
SignedRequest(search, privateKey, keyId, names) ==
    PeerSigned([InboundRequest(LikeActivity, "local", "d1") EXCEPT !.search = search],
               privateKey, keyId, names)

\* the requests as signed: to /inbox under each key, keyId and header list,
\* and one to /inbox?page=1
SignedRequests ==
    { SignedRequest("", privateKey, keyId, names) :
        privateKey \in VerifyKeys, keyId \in VerifyKeyIds, names \in VerifyNames }
      \cup { SignedRequest("?page=1", "priv:alice", AliceUrl, StandardNames) }

RECURSIVE JoinTokens(_, _)
JoinTokens(parts, sep) ==
    IF Len(parts) = 0 THEN <<>>
    ELSE IF Len(parts) = 1 THEN parts[1]
    ELSE parts[1] \o sep \o JoinTokens(Tail(parts), sep)

\* a Signature header with its i-th parameter left out
WithoutParam(header, i) ==
    LET parts == SplitOn(header, Comma)
    IN JoinTokens([j \in 1..(Len(parts) - 1) |-> IF j < i THEN parts[j] ELSE parts[j + 1]],
                  <<Comma>>)

\* the shapes in which the Signature header of a signed request arrives: as
\* made, with the scheme name in front, without keyId, without signature, absent
Shapes(req) ==
    { req,
      [req EXCEPT !.signature = <<Ch("Signature"), Space>> \o @],
      [req EXCEPT !.signature = WithoutParam(@, 1)],
      [req EXCEPT !.signature = WithoutParam(@, 4)],
      [req EXCEPT !.signature = <<>>] }

SetHeader(req, name, value) == [req EXCEPT !.headers = (name :> value) @@ @]

RemoveHeader(req, name) ==
    [req EXCEPT !.headers = [h \in DOMAIN @ \ {name} |-> @[h]]]

\* what can happen to the headers on the way: nothing, a value replaced (by
\* another value or by the empty value), a header removed
Tampers(req) ==
    { req,
      SetHeader(req, "host", "evil"),
      SetHeader(req, "date", "d2"),
      SetHeader(req, "date", ""),
      SetHeader(req, "digest", "SHA-256=sha256(other)"),
      RemoveHeader(req, "date") }

ReceiveVaried ==
    \E origin \in SignedRequests :
        \E shaped \in Shapes(origin) :
            \E req \in Tampers(shaped) :
                Inbox(req, origin) /\ UNCHANGED <<dlv, times, fan, codec, flight, twin>>

NextVerify == ReceiveVaried

SpecVerify == Init /\ [][NextVerify]_vars

----------------------------------------------------------------------------
(* Delivery: deliverToInbox, src/unnamed/part_000:66-108, and the inbox of *)
(* a server that stores the sender's public key receiving what it sends.   *)
(* deliverToInbox keeps nothing between calls: a behaviour follows one     *)
(* delivery from the call to its result.                                   *)

\* the headers object deliverToInbox starts with; Date is the clock at line 71
DeliveryHeaders(now) ==
    ("Content-Type" :> "application/activity+json")
      @@ ("Accept" :> "application/activity+json, application/ld+json")
      @@ ("Date" :> now) @@ ("User-Agent" :> "social (http://local)")

\* the request as the receiving server reads it: header names are matched
\* without case and a name set twice has the value set last; Host is the
\* host of the URL posted to
Wire(inbox, headers, signature, body) ==
    [method |-> "POST", path |-> inbox.pathname, search |-> inbox.search,
     headers |-> ("host" :> inbox.host)
                   @@ ("date" :> IF "date" \in DOMAIN headers THEN headers["date"]
                                 ELSE headers["Date"])
                   @@ (IF "digest" \in DOMAIN headers
                       THEN "digest" :> headers["digest"] ELSE <<>>),
     signature |-> signature, body |-> body]

\* validateStatus of the axios.post in deliverToInbox (line 89)
DeliveryValidateStatus(status) == (status >= 200 /\ status < 300) \/ status = 401

\* deliverToInbox up to the axios.post: the headers are built, the request
\* is signed when keyId and privateKey are given, and it is posted once; a
\* throw of createSignature is caught and ends the delivery
Deliver(activity, inbox, keyId, privateKey, now1, now2) ==
    LET headers == DeliveryHeaders(now1)
        signing == keyId # "" /\ privateKey # ""
        signed == createSignature(privateKey, keyId,
                                  [method |-> "POST", url |-> inbox, headers |-> headers,
                                   body |-> activity], now2)
    IN /\ dlv.pc = "idle"
       /\ dlv' = IF signing /\ signed.threw
                 THEN [dlv EXCEPT !.pc = "done", !.keyId = keyId, !.privateKey = privateKey,
                                  !.result = [success |-> FALSE, status |-> 0,
                                              error |-> "sign"]]
                 ELSE [dlv EXCEPT !.pc = "sent", !.keyId = keyId, !.privateKey = privateKey,
                                  !.attempts = 1,
                                  !.wire = IF signing
                                           THEN Wire(inbox, signed.headers, signed.signature,
                                                     activity)
                                           ELSE Wire(inbox, headers, <<>>, activity)]
       /\ UNCHANGED <<bypass, follows, posts, pend, last, hist, times, fan, codec, flight, twin>>

\* the return of deliverToInbox for an answer to its one request: success
\* for a status validateStatus lets through, the catch for the rest
DeliveryResult(answer) ==
    IF answer.kind = "response" /\ DeliveryValidateStatus(answer.status)
    THEN [success |-> TRUE, status |-> answer.status, error |-> ""]
    ELSE [success |-> FALSE, status |-> answer.status, error |-> "request failed"]

\* the request reaches the inbox of the receiving server
Arrive ==
    /\ dlv.pc = "sent"
    /\ Inbox(dlv.wire, dlv.wire)
    /\ dlv' = [dlv EXCEPT !.pc = "arrived"]
    /\ UNCHANGED <<times, fan, codec, flight, twin>>

\* the receiving server's answer comes back
Respond ==
    /\ dlv.pc = "arrived"
    /\ dlv' = [dlv EXCEPT !.pc = "done", !.answer = Response(last.status),
                          !.result = DeliveryResult(Response(last.status))]
    /\ UNCHANGED <<bypass, follows, posts, pend, last, hist, times, fan, codec, flight, twin>>

\* the request does not reach the inbox: the connection fails, or something
\* in between answers
OtherAnswer(answer) ==
    /\ dlv.pc = "sent"
    /\ dlv' = [dlv EXCEPT !.pc = "done", !.answer = answer, !.result = DeliveryResult(answer)]
    /\ UNCHANGED <<bypass, follows, posts, pend, last, hist, times, fan, codec, flight, twin>>

InboxUrls ==
    { [host |-> "local", pathname |-> "/inbox", search |-> ""],
      [host |-> "undefined", pathname |-> "/inbox", search |-> ""],
      [host |-> "local", pathname |-> "/inbox", search |-> "?page=1"] }

DeliveryKeyIds == { AliceUrl, PublishedKeyId(AliceUrl), "" }

\* a key crypto.sign accepts, another actor's, a passphrase-protected PEM, none
DeliveryKeys == { "priv:alice", "priv:bob", "enc:alice", "" }

DeliveredActivities ==
    { LikeActivity, CreateActivity("create-1", RitaUrl, Note("note-1", <<PublicUri>>)) }

Call ==
    \E activity \in DeliveredActivities, inbox \in InboxUrls, keyId \in DeliveryKeyIds,
       privateKey \in DeliveryKeys, now2 \in Dates :
        Deliver(activity, inbox, keyId, privateKey, "d1", now2)

Answered == \E answer \in Answers : OtherAnswer(answer)

NextDeliver == Call \/ Arrive \/ Respond \/ Answered

SpecDeliver == Init /\ [][NextDeliver]_vars

----------------------------------------------------------------------------
(* Delivery of one activity to several inboxes: deliverToInbox called for  *)
(* each target in turn.  A call that threw would end the caller's loop.    *)

\* a deliverToInbox without its try/catch: a failed request is thrown
deliverToInbox_NoCatch(activity, inbox, keyId, privateKey, now1, now2, answer) ==
    LET ok == answer.kind = "response" /\ DeliveryValidateStatus(answer.status)
    IN [escaped |-> ~ok, requested |-> TRUE,
        wire |-> Wire(inbox, DeliveryHeaders(now1), <<>>, activity),
        result |-> DeliveryResult(answer)]

\* deliverToInbox from call to return, for the answer its request gets:
\* whether an exception escaped, whether a request was made, the request as
\* received, and the returned result
deliverToInbox(activity, inbox, keyId, privateKey, now1, now2, answer) ==
    LET headers == DeliveryHeaders(now1)
        signing == keyId # "" /\ privateKey # ""
        signed == createSignature(privateKey, keyId,
                                  [method |-> "POST", url |-> inbox, headers |-> headers,
                                   body |-> activity], now2)
    IN IF signing /\ signed.threw
       THEN [escaped |-> FALSE, requested |-> FALSE, wire |-> NoRequest,
             result |-> [success |-> FALSE, status |-> 0, error |-> "sign"]]
       ELSE [escaped |-> FALSE, requested |-> TRUE,
             wire |-> IF signing
                      THEN Wire(inbox, signed.headers, signed.signature, activity)
                      ELSE Wire(inbox, headers, <<>>, activity),
             result |-> DeliveryResult(answer)]

\* the inboxes one activity is delivered to
FanTargets ==
    << [host |-> "remote-1", pathname |-> "/inbox", search |-> ""],
       [host |-> "remote-2", pathname |-> "/inbox", search |-> ""],
       [host |-> "remote-3", pathname |-> "/inbox", search |-> ""] >>

\* the caller starts on the first target
FanStart(privateKey) ==
    /\ fan.pc = "idle"
    /\ fan' = [NoFanOut EXCEPT !.pc = "running", !.privateKey = privateKey]
    /\ UNCHANGED <<bypass, follows, posts, pend, last, dlv, hist, times, codec, flight, twin>>

\* the call for the target the caller is at returns (or throws) for the
\* answer its request got
FanStep(answer) ==
    LET out == deliverToInbox(LikeActivity, FanTargets[fan.at], AliceUrl, fan.privateKey,
                              "d1", "d1", answer)
        got == IF out.requested THEN answer ELSE NetworkError
    IN /\ fan.pc = "running"
       /\ fan' = IF out.escaped THEN [fan EXCEPT !.pc = "aborted"]
                 ELSE [fan EXCEPT !.answers = Append(@, got),
                                  !.results = Append(@, out.result),
                                  !.at = @ + 1,
                                  !.pc = IF fan.at = Len(FanTargets) THEN "done" ELSE "running"]
       /\ UNCHANGED <<bypass, follows, posts, pend, last, dlv, hist, times, codec, flight, twin>>

StartFanOut == \E privateKey \in {"priv:alice", "enc:alice"} : FanStart(privateKey)

StepFanOut == \E answer \in Answers : FanStep(answer)

NextFanOut == StartFanOut \/ StepFanOut

SpecFanOut == Init /\ [][NextFanOut]_vars

----------------------------------------------------------------------------
(* The Signature header codec: a header in the form createSignature writes *)
(* (httpSignature.js:169) is parsed by parseSignatureHeader and its four   *)
(* values are written back in the same form.                               *)

\* the template of line 169 for four values given as text
EncodeSignature(keyId, algorithm, headers, signature) ==
    <<Ch("keyId"), Equals, Quote>> \o keyId
      \o <<Quote, Comma, Ch("algorithm"), Equals, Quote>> \o algorithm
      \o <<Quote, Comma, Ch("headers"), Equals, Quote>> \o headers
      \o <<Quote, Comma, Ch("signature"), Equals, Quote>> \o signature \o <<Quote>>

\* `${signature[param]}` of a parsed header
ParamText(params, param) ==
    IF param \in DOMAIN params THEN params[param] ELSE <<Ch("undefined")>>

\* keyIds: an actor URL, a published key identifier, one with '=' in it
CodecKeyIds == { <<Ch(AliceUrl)>>, <<Ch(PublishedKeyId(AliceUrl))>>, KeyIdText("k=v") }

\* base64 text of signatures of 384, 512 and 256 bytes: no, one and two '='
CodecSignatures ==
    { <<[b64 |-> CryptoSign(key, "s")]>> \o padding :
        key \in {"priv:alice", "priv:bob"},
        padding \in { <<>>, <<Equals>>, <<Equals, Equals>> } }

CodecHeaders ==
    { EncodeSignature(keyId, <<Ch(algorithm)>>, Words(names), signature) :
        keyId \in CodecKeyIds, algorithm \in {"rsa-sha256", "hs2019"},
        names \in {StandardNames, <<"date">>}, signature \in CodecSignatures }

CodecGive(header) ==
    /\ codec.pc = "idle"
    /\ codec' = [codec EXCEPT !.pc = "given", !.header = header]
    /\ UNCHANGED <<bypass, follows, posts, pend, last, dlv, hist, times, fan, flight, twin>>

CodecParse ==
    /\ codec.pc = "given"
    /\ codec' = [codec EXCEPT !.pc = "parsed",
                              !.params = parseSignatureHeader(codec.header).params]
    /\ UNCHANGED <<bypass, follows, posts, pend, last, dlv, hist, times, fan, flight, twin>>

CodecEncode ==
    /\ codec.pc = "parsed"
    /\ codec' = [codec EXCEPT !.pc = "encoded",
                              !.encoded = EncodeSignature(ParamText(codec.params, "keyId"),
                                                          ParamText(codec.params, "algorithm"),
                                                          ParamText(codec.params, "headers"),
                                                          ParamText(codec.params, "signature"))]
    /\ UNCHANGED <<bypass, follows, posts, pend, last, dlv, hist, times, fan, flight, twin>>

GiveHeader == \E header \in CodecHeaders : CodecGive(header)

NextCodec == GiveHeader \/ CodecParse \/ CodecEncode

SpecCodec == Init /\ [][NextCodec]_vars

----------------------------------------------------------------------------
(* Verifications in progress at the same time: verifySignature awaits      *)
(* prisma.user.findFirst (httpSignature.js:45-48), and while it waits      *)
(* other requests are taken up.                                            *)

\* whether verifySignature gets as far as the key lookup (lines 30-48)
LookupMade(req) ==
    LET signature == parseSignatureHeader(req.signature)
    IN /\ ~signature.isNull
       /\ \A i \in 1..Len(requiredParams) : ~ParamMissing(signature.params, requiredParams[i])

\* verifications that can be waiting for their key lookup at the same time
MaxFlight == 2

FlightCount == SumCounts(flight, DOMAIN flight)

\* the lookups in flight for a keyId
LookupsInFlight(keyId) == SumCounts(flight, { f \in DOMAIN flight : f.keyId = keyId })

\* the requests that arrive: the signed ones, and one without a signature
ConcurrentRequests ==
    SignedRequests \cup { InboundRequest(LikeActivity, "local", "d1") }

\* a request arrives and the middleware runs up to the key lookup, where it
\* waits
VerifyBegin(req) ==
    /\ ~bypass /\ LookupMade(req)
    /\ FlightCount < MaxFlight
    /\ flight' = Insert(flight,
                        [req |-> req,
                         keyId |-> AsString(parseSignatureHeader(req.signature)
                                               .params["keyId"])])
    /\ UNCHANGED <<bypass, follows, posts, pend, last, dlv, hist, times, fan, codec, twin>>

\* the key lookup a request waits for; none with the bypass set or when a
\* step before the lookup fails
LookupOf(req) ==
    IF bypass \/ ~LookupMade(req) THEN {}
    ELSE { [req |-> req,
            keyId |-> AsString(parseSignatureHeader(req.signature).params["keyId"])] }

\* a request is answered: one that needs no lookup as it arrives, one that
\* waits for its lookup when the lookup resolves; the rest of the
\* verification and the route run
VerifyEnd(req) ==
    /\ LookupOf(req) \subseteq DOMAIN flight
    /\ flight' = IF LookupOf(req) = {} THEN flight
                 ELSE Remove(flight, CHOOSE f \in LookupOf(req) : TRUE)
    /\ Inbox(req, req)
    /\ UNCHANGED <<dlv, times, fan, codec, twin>>

Arrival == \E req \in ConcurrentRequests : VerifyBegin(req)

Resolution == \E req \in ConcurrentRequests : VerifyEnd(req)

NextLookup == Arrival \/ Resolution

SpecLookup == Init /\ [][NextLookup]_vars

----------------------------------------------------------------------------
(* The body and the verdict: a request that a remote signer made for one   *)
(* activity reaches the inbox with that activity or with another one as    *)
(* its body, method, path and headers (Digest and Signature too) as made.  *)
(* One run is marked, and a later run whose request differs from it in the *)
(* body at most is put next to it.                                         *)

BodyActivities ==
    { LikeActivity,
      CreateActivity("create-1", RitaUrl, Note("note-1", <<PublicUri>>)),
      CreateActivity("create-3", RitaUrl, NoteWithoutTo("note-3")) }

\* each activity signed by alice under her keyId, and by bob under alice's keyId
BodyOrigins ==
    UNION { { PeerSigned(InboundRequest(a, "local", "d1"), "priv:alice", AliceUrl, StandardNames),
              PeerSigned(InboundRequest(a, "local", "d1"), "priv:bob", AliceUrl, StandardNames) }
            : a \in BodyActivities }

\* req.body is what express.json() parsed, whatever the headers say
WithBody(req, body) == [req EXCEPT !.body = body]

\* same method, path, query, headers and Signature header
SameButBody(r1, r2) == WithBody(r1, NoBody) = WithBody(r2, NoBody)

\* the run that `answer` ends: tables F, P before it and G, Q after it
RunOf(answer, F, P, G, Q) ==
    [req |-> answer.req, result |-> answer.result, pre |-> <<F, P>>, post |-> <<G, Q>>]

\* the record after `run`: it is marked if none is and mark says so, and it
\* is put next to the marked run if it is like it
Compared(t, run, mark, alike) ==
    IF t.first = NoRun THEN (IF mark THEN [t EXCEPT !.first = run] ELSE t)
    ELSE IF alike THEN [t EXCEPT !.second = run]
    ELSE t

\* whether the next run is to be marked: a choice while none is
Marks == IF twin.first = NoRun THEN BOOLEAN ELSE {FALSE}

ReceiveBody ==
    \E origin \in BodyOrigins, body \in BodyActivities, mark \in Marks :
        /\ Inbox(WithBody(origin, body), origin)
        /\ twin' = Compared(twin, RunOf(last', follows, posts, follows', posts'), mark,
                            SameButBody(twin.first.req, last'.req))
        /\ UNCHANGED <<dlv, times, fan, codec, flight>>

NextBody == ReceiveBody

SpecBody == Init /\ [][NextBody]_vars

----------------------------------------------------------------------------
(* The signer and the transition: each activity arrives signed by alice    *)
(* under her keyId and signed by bob under his, so by the actor of the     *)
(* activity, by a party of the relationship, or by neither.  A verified    *)
(* run is marked, and a later verified run on the same body, from the same *)
(* tables, is put next to it.                                              *)

SignerActivities ==
    { FollowA,
      AboutFollow("accept-a", "Accept", AliceUrl, FollowA),
      AboutFollow("undo-a", "Undo", RitaUrl, FollowA),
      CreateActivity("create-1", BobUrl, Note("note-1", <<PublicUri>>)) }

\* each activity signed by alice under her keyId, and by bob under his
SignerRequests ==
    UNION { { PeerSigned(InboundRequest(a, "local", "d1"), "priv:alice", AliceUrl, StandardNames),
              PeerSigned(InboundRequest(a, "local", "d1"), "priv:bob", BobUrl, StandardNames) }
            : a \in SignerActivities }

\* the request and req.signature of the run just made: of the answer sent,
\* or of the request now suspended in handleFollow
Handled(pendBefore, pendAfter, answer) ==
    IF pendAfter = pendBefore THEN answer
    ELSE CHOOSE p \in DOMAIN pendAfter : Count(pendAfter, p) > Count(pendBefore, p)

\* both verified, the same activity, the same tables before
SameButSigner(run1, run2) ==
    /\ run1.result.verified
    /\ run2.result.verified
    /\ run1.req.body = run2.req.body
    /\ run1.pre = run2.pre

ReceiveSigned ==
    \E req \in SignerRequests, mark \in Marks :
        /\ Inbox(req, req)
        /\ LET run == RunOf(Handled(pend, pend', last'), follows, posts, follows', posts')
           IN twin' = Compared(twin, run, mark /\ run.result.verified,
                               SameButSigner(twin.first, run))
        /\ UNCHANGED <<dlv, times, fan, codec, flight>>

\* the Accept that handleFollow sends is answered 202, or the request fails
AcceptSent ==
    \E p \in DOMAIN pend, answer \in {Response(202), NetworkError} :
        SendActivity(p, answer, "d1", TRUE) /\ UNCHANGED <<times, fan, codec, flight, twin>>

NextSigner == ReceiveSigned \/ AcceptSent

SpecSigner == Init /\ [][NextSigner]_vars

----------------------------------------------------------------------------
(* Properties of the inbox *)

\* C3: after the inbox handler has run two or more times on a Create of the
\* same Note, the Post table holds exactly one Post with the Note's id.
C3_ReplayLeavesOnePost ==
    \A n \in NoteIds : times[n] >= 2 => PostCount(posts, n) = 1

\* what does hold of replays (not the claim): no Note id ever has two Posts
NoDuplicatePost == \A n \in NoteIds : PostCount(posts, n) <= 1

\* C4: for a pair that had no row, after a Follow and then an Accept of it
\* were processed the pair has exactly one row and it is ACCEPTED; after an
\* Undo of the Follow was processed next, the pair has no row.
C4_FollowLifecycle ==
    \A pair \in Pairs :
        /\ hist[pair] = "FA" => PairRows(follows, pair) = { <<"ACCEPTED", 1>> }
        /\ hist[pair] = "FAU" => PairCount(follows, pair[1], pair[2]) = 0

\* a Follow, its Accept and its Undo were processed in that order
C4_Witness ==
    /\ hist[<<RitaUrl, AliceUrl>>] = "FAU"
    /\ last.ran /\ Prop(last.req.body, "type") = "Undo" /\ last.status = 202

\* the Follow and the Accept were processed, the Undo not yet
C4_AcceptedReached ==
    /\ hist[<<RitaUrl, AliceUrl>>] = "FA"
    /\ PairRows(follows, <<RitaUrl, AliceUrl>>) = { <<"ACCEPTED", 1>> }

C6_AtomicOn500 == last.status = 500 => ~last.wrote

\* the requests of InboxRequests that carry the signature of the key stored
\* for their keyId
GenuineRequests ==
    { PeerSigned(InboundRequest(a, "local", "d1"), PrivateOf(u.publicKey), u.actorUrl,
                 StandardNames) : a \in Activities, u \in Users }

\* C7: with the bypass unset, the handler runs, the tables change and 202 is
\* answered only for a request verifySignature verified, which is one signed
\* with the stored key of its keyId; any other request is answered 401.
C7_SignatureGate ==
    ~bypass =>
        /\ (last.ran \/ last.wrote \/ last.status = 202)
              => last.result.verified /\ last.req \in GenuineRequests
        /\ \A p \in DOMAIN pend : p.result.verified /\ p.req \in GenuineRequests
        /\ (last.req # NoRequest /\ last.req \notin GenuineRequests)
              => ~last.ran /\ ~last.wrote /\ last.status = 401

\* with the bypass unset, a request signed with another actor's key was refused
C7_Witness ==
    /\ ~bypass /\ last.req.signature # <<>> /\ last.req \notin GenuineRequests
    /\ last.status = 401 /\ ~last.ran /\ follows = EmptyTable /\ posts = EmptyTable

\* with the bypass unset, a verified request was processed and answered 202
C7_VerifiedRan ==
    ~bypass /\ last.ran /\ last.status = 202 /\ last.wrote /\ last.result.verified

\* with the bypass set, the handler ran for an unsigned request
C7_BypassRan == bypass /\ last.ran /\ last.req.signature = <<>> /\ last.wrote

----------------------------------------------------------------------------
(* Properties of verification *)

\* the header names a request's Signature header lists, lowercased
SignedNames(req) ==
    LET names == HeaderNames(parseSignatureHeader(req.signature).params["headers"])
    IN { ToLowerCase(names[i]) : i \in 1..Len(names) } \ { "(request-target)" }

\* the last request was signed so that it verifies, and arrived with the
\* Signature header as made and the value of a signed header changed
ValueChanged ==
    /\ last.result # NotRun
    /\ verifySignature(last.origin).verified
    /\ last.req.signature = last.origin.signature
    /\ \E h \in SignedNames(last.origin) :
          /\ h \in DOMAIN last.req.headers /\ h \in DOMAIN last.origin.headers
          /\ last.req.headers[h] # last.origin.headers[h]

\* C2: a request whose signed header value was changed after signing is
\* answered verified:false with the error "Invalid signature".
C2_TamperIsInvalidSignature ==
    ValueChanged => last.result = Failed("Invalid signature")

\* what does hold of changed values (not the claim): never verified:true
TamperNeverVerifies == ValueChanged => ~last.result.verified

\* C8: every request whose verification fails is answered 401 with the body
\* {error: 'Invalid signature', details: <the failure>} and does not reach
\* the handler; one without a Signature header has details "No signature
\* header"; with verification on, no request is answered 500.
C8_FailuresAre401 ==
    /\ (last.result # NotRun /\ ~last.result.verified) =>
          /\ last.status = 401 /\ ~last.ran
          /\ last.error = "Invalid signature"
          /\ last.details = last.result.error /\ last.details # ""
          /\ last.req.signature = <<>> => last.details = "No signature header"
    /\ (~bypass /\ last.req # NoRequest) =>
          /\ last.result # NotRun
          /\ last.status \in {401, 202}
          /\ last.status = 202 <=> last.result.verified

\* a request without a Signature header was answered 401, "No signature header"
C8_Witness ==
    /\ last.req # NoRequest /\ last.req.signature = <<>>
    /\ last.status = 401 /\ last.details = "No signature header"

\* the other failures that are reached: a parameter missing, an unknown
\* actor, a signed header missing, a mismatch
C8_MissingParam == last.status = 401 /\ last.details = "Missing required signature parameter: keyId"
C8_UnknownActor ==
    last.status = 401 /\ last.details = "Actor not found or has no public key: " \o RitaUrl
C8_MissingHeader == last.status = 401 /\ last.details = "Missing required header in signature: date"
C8_Mismatch == last.status = 401 /\ last.details = "Invalid signature"

----------------------------------------------------------------------------
(* Properties of delivery *)

\* the delivery was signed with the key of a stored actor under that actor's
\* URL as keyId, and the inbox verified the request as it was sent
SignedAndVerified ==
    /\ dlv.pc \in {"arrived", "done"} /\ dlv.attempts > 0
    /\ dlv.wire.signature # <<>>
    /\ \E u \in Users : dlv.keyId = u.actorUrl /\ dlv.privateKey = PrivateOf(u.publicKey)
    /\ last.req = dlv.wire /\ last.result # NotRun

\* C1: a request signed by createSignature with the key of an actor whose
\* public key is stored, and received as sent, is verified, with the keyId
\* given to the signer.
C1_RoundTrip ==
    SignedAndVerified => last.result.verified /\ last.result.keyId = dlv.keyId

\* the one destination for which the round trip does succeed: a host named
\* "undefined", with no query
RoundTripToHostUndefined ==
    SignedAndVerified /\ last.result.verified /\ dlv.wire.headers["host"] = "undefined"

\* C9: a delivery is reported as a success exactly when the inbox answered
\* with a 2xx status; a 401 or 403 answer is reported as a failure.
C9_SuccessIff2xx ==
    (dlv.pc = "done" /\ dlv.attempts > 0) =>
        (dlv.result.success <=> (dlv.answer.kind = "response"
                                   /\ dlv.answer.status >= 200 /\ dlv.answer.status < 300))

\* an answer that is a transient failure: a network error or a 5xx status
Transient(answer) == answer.kind = "error" \/ answer.status >= 500

\* C10: a delivery whose attempt ended in a transient failure was attempted
\* again before it ended.
C10_TransientIsRetried ==
    (dlv.pc = "done" /\ dlv.attempts > 0 /\ Transient(dlv.answer)) => dlv.attempts >= 2

\* what does hold (not the claim): a delivery posts at most once
OneAttempt == dlv.attempts <= 1

----------------------------------------------------------------------------
(* Properties of the delivery to several inboxes *)

Is2xx(answer) == answer.kind = "response" /\ answer.status >= 200 /\ answer.status < 300

\* C11: a delivery to several inboxes is never aborted by one target's
\* failure; every target reached has its own result, a success when its
\* inbox answered 2xx and a failure when it answered 5xx or 403 or the
\* connection failed, whatever the other targets answered; at the end every
\* target has a result.
C11_FanOutIndependent ==
    /\ fan.pc # "aborted"
    /\ Len(fan.results) = Len(fan.answers)
    /\ fan.pc = "running" => Len(fan.results) = fan.at - 1
    /\ fan.pc = "done" => Len(fan.results) = Len(FanTargets)
    /\ \A i \in 1..Len(fan.results) :
          /\ (fan.privateKey \in UsableKeys /\ Is2xx(fan.answers[i])) => fan.results[i].success
          /\ (Transient(fan.answers[i]) \/ fan.answers[i] = Response(403))
                => ~fan.results[i].success

\* three targets, the second answering 500 and the others 202: two successes
\* and one failure are reported
C11_Witness ==
    /\ fan.pc = "done"
    /\ fan.answers = <<Response(202), Response(500), Response(202)>>
    /\ [i \in 1..3 |-> fan.results[i].success] = <<TRUE, FALSE, TRUE>>

----------------------------------------------------------------------------
(* Properties of signing in a delivery *)

\* C12: a delivery whose private key is absent or cannot sign makes no
\* request and ends with a failure result, and no delivery's request is
\* without a Signature header.
C12_SigningFailureSendsNothing ==
    /\ (dlv.pc # "idle" /\ dlv.privateKey \notin UsableKeys) =>
          dlv.attempts = 0 /\ dlv.pc = "done" /\ ~dlv.result.success
    /\ dlv.attempts > 0 => dlv.wire.signature # <<>>

\* what does hold (not the claim): a key that is given and cannot sign ends
\* the delivery with a failure and no request
UnusableKeySendsNothing ==
    (dlv.pc # "idle" /\ dlv.keyId # "" /\ dlv.privateKey \notin UsableKeys \cup {""}) =>
        dlv.attempts = 0 /\ dlv.pc = "done" /\ ~dlv.result.success

----------------------------------------------------------------------------
(* Properties of the handlers *)

\* C13: processing an inbound Follow sends no Accept, and the row it creates
\* is PENDING until an Accept for the Follow is processed.
C13_FollowSendsNothing ==
    /\ (last.ran /\ Prop(last.req.body, "type") = "Follow") => ~last.posted
    /\ \A pair \in Pairs : hist[pair] = "F" => PairRows(follows, pair) = { <<"PENDING", 1>> }

\* what does hold (not the claim): after a Follow alone the pair's row is PENDING
FollowLeavesPending ==
    \A pair \in Pairs : hist[pair] = "F" => PairRows(follows, pair) = { <<"PENDING", 1>> }

\* the activity types the inbox has a handler for
HandledTypes == {"Follow", "Create", "Undo", "Accept", "Reject"}

\* C14: a request that reached the handler with an activity whose type is
\* none of Follow, Create, Undo, Accept, Reject (or that has no type) is
\* answered 202 and leaves the Follow and Post tables as they were.
C14_UnknownTypeIsNoOp ==
    (last.ran /\ Prop(last.req.body, "type") \notin HandledTypes) =>
        last.status = 202 /\ ~last.wrote /\ ~last.posted

\* a verified activity without a type was answered 202 while the tables had rows
C14_Witness ==
    /\ ~bypass /\ last.result.verified /\ last.ran
    /\ Prop(last.req.body, "type") = Undefined
    /\ last.status = 202 /\ follows # EmptyTable /\ posts # EmptyTable

\* a verified Like was answered 202
C14_LikeAccepted ==
    ~bypass /\ last.result.verified /\ last.req.body.id = "like-1" /\ last.status = 202

\* the visibility the addressing rule gives a Note: public exactly when its
\* target list has the public collection URI
IsAddressedToPublic(object) ==
    HasProp(object, "to") /\ \E i \in 1..Len(object.to) : object.to[i] = PublicUri

\* C15: after a Create(Note) was processed, the Post table holds the Post
\* with the Note's id, public exactly when the Note's target list has the
\* public URI (non-public also when the Note has no target list), and no
\* Create changes the Follow table.
C15_VisibilityOfNote ==
    (last.ran /\ IsCreateNote(last.req.body)) =>
        /\ [id |-> last.req.body.object.id,
            isPublic |-> IsAddressedToPublic(last.req.body.object)] \in DOMAIN posts
        /\ PostCount(posts, last.req.body.object.id) = 1
        /\ follows = EmptyTable

\* what does hold (not the claim): a Note that has a target list is stored
\* with the visibility the rule gives it
ListedNoteVisibility ==
    (last.ran /\ IsCreateNote(last.req.body) /\ HasProp(last.req.body.object, "to")) =>
        /\ [id |-> last.req.body.object.id,
            isPublic |-> IsAddressedToPublic(last.req.body.object)] \in DOMAIN posts
        /\ PostCount(posts, last.req.body.object.id) = 1
        /\ follows = EmptyTable

----------------------------------------------------------------------------
(* Properties of the signing string *)

\* the string createSignature signed, read back from the signature
SignedString(req) ==
    Base64Decode(parseSignatureHeader(req.signature).params["signature"]).over

\* the string verifySignature rebuilds for a request (lines 55-65)
VerifierString(req) ==
    LET names == HeaderNames(parseSignatureHeader(req.signature).params["headers"])
    IN JoinWith([i \in 1..Len(names) |-> VerifierLine(req, names[i])], "\n")

\* the construction the two are to agree on: per listed header one line of
\* the lowercased name and the value sent, (request-target) with the query
CanonicalString(req) ==
    LET names == HeaderNames(parseSignatureHeader(req.signature).params["headers"])
    IN JoinWith([i \in 1..Len(names) |-> PeerLine(req, names[i])], "\n")

\* C16: for a request signed by createSignature, the string verifySignature
\* rebuilds is the string that was signed, and it is the canonical one: the
\* listed headers in order with the values sent, (request-target) as
\* "<method> <path>[?query]".
C16_SameSigningString ==
    (dlv.pc # "idle" /\ dlv.wire.signature # <<>>) =>
        /\ VerifierString(dlv.wire) = SignedString(dlv.wire)
        /\ SignedString(dlv.wire) = CanonicalString(dlv.wire)

\* where the two do agree: a request to a host named "undefined", no query
SameStringToHostUndefined ==
    /\ dlv.pc # "idle" /\ dlv.wire.signature # <<>>
    /\ VerifierString(dlv.wire) = SignedString(dlv.wire)

\* what does hold (not the claim): the two differ in nothing but the host
\* line and the query of (request-target)
DiffersInHostAndQueryOnly ==
    (dlv.pc # "idle" /\ dlv.wire.signature # <<>>) =>
        LET asSigned == [dlv.wire EXCEPT !.headers = ("host" :> "undefined") @@ @]
        IN /\ SignedString(dlv.wire) = CanonicalString(asSigned)
           /\ VerifierString(dlv.wire) = CanonicalString([dlv.wire EXCEPT !.search = ""])

----------------------------------------------------------------------------
(* Properties of the codec *)

\* C17: a Signature header parsed and written back in the same form is the
\* header that was parsed.
C17_CodecRoundTrip == codec.pc = "encoded" => codec.encoded = codec.header

\* the header has a keyId with '=' in it, or a signature that ends in '='
HasEqualsInValue ==
    \E i \in 1..Len(codec.header) :
        /\ codec.header[i] = Equals
        /\ i > 1 /\ codec.header[i - 1] \notin {Ch("keyId"), Ch("algorithm"),
                                                 Ch("headers"), Ch("signature")}

\* what does hold (not the claim): the round trip is exact for the headers
\* whose values have no '='
RoundTripWithoutEquals ==
    (codec.pc = "encoded" /\ ~HasEqualsInValue) => codec.encoded = codec.header

\* such a header went through the codec
RoundTripWithoutEqualsReached ==
    codec.pc = "encoded" /\ ~HasEqualsInValue /\ codec.encoded = codec.header

----------------------------------------------------------------------------
(* Properties of the order of the verifier's steps *)

\* the error of the earliest failing step, in the order: Signature header
\* absent, parameter absent, keyId not resolvable, listed header absent from
\* the request, signature mismatch; "" when no step fails
ExpectedError(req) ==
    LET signature == parseSignatureHeader(req.signature)
        params == signature.params
        missing == { i \in 1..Len(requiredParams) : ParamMissing(params, requiredParams[i]) }
        firstMissing == CHOOSE i \in missing : \A j \in missing : i <= j
        keyId == AsString(params["keyId"])
        names == HeaderNames(params["headers"])
        absent == { i \in 1..Len(names) :
                      names[i] # "(request-target)" /\ ~HasHeader(req, ToLowerCase(names[i])) }
        firstAbsent == CHOOSE i \in absent : \A j \in absent : i <= j
        key == (CHOOSE u \in FindUserByActorUrl(keyId) : TRUE).publicKey
    IN IF req.signature = <<>> THEN "No signature header"
       ELSE IF missing # {}
       THEN "Missing required signature parameter: " \o requiredParams[firstMissing]
       ELSE IF FindUserByActorUrl(keyId) = {}
       THEN "Actor not found or has no public key: " \o keyId
       ELSE IF absent # {}
       THEN "Missing required header in signature: " \o names[firstAbsent]
       ELSE IF ~CryptoVerify(key, VerifierString(req), Base64Decode(params["signature"]))
       THEN "Invalid signature"
       ELSE ""

\* C18: verifySignature fails with the error of the earliest failing step,
\* makes no key lookup when a parameter is missing, and reports a listed
\* header that is absent as missing, never as a mismatch.
C18_FirstFailingStep ==
    last.result # NotRun =>
        /\ last.result.error = ExpectedError(last.req)
        /\ last.result.verified <=> ExpectedError(last.req) = ""
        /\ (last.req.signature # <<>> /\ ~LookupMade(last.req)) =>
              \E i \in 1..Len(requiredParams) :
                  last.result.error
                     = "Missing required signature parameter: " \o requiredParams[i]

\* a listed header of the last request is there with the empty value
EmptyListedHeader ==
    /\ LookupMade(last.req)
    /\ \E h \in SignedNames(last.req) :
          h \in DOMAIN last.req.headers /\ last.req.headers[h] = ""

\* what does hold (not the claim): the order is kept for every request in
\* which no listed header has the empty value
FirstFailingStepUnlessEmpty ==
    (last.result # NotRun /\ ~EmptyListedHeader) =>
        /\ last.result.error = ExpectedError(last.req)
        /\ last.result.verified <=> ExpectedError(last.req) = ""

----------------------------------------------------------------------------
(* Properties of the key lookup *)

\* C19: at most one lookup of a keyId is in flight at any time.
C19_SingleFlight ==
    \A keyId \in VerifyKeyIds : LookupsInFlight(keyId) <= 1

----------------------------------------------------------------------------
(* Properties of key identifiers *)

\* the keyId of the last request's Signature header ("" when it has none)
KeyIdOf(req) ==
    IF LookupMade(req) THEN AsString(parseSignatureHeader(req.signature).params["keyId"])
    ELSE ""

\* C20: a request whose keyId is the key identifier published for a stored
\* actor ('<actorUrl>#main-key') does not fail with the actor-not-found
\* error, and is verified when it is received as that actor's key signed it.
C20_PublishedKeyIdResolves ==
    \A u \in Users :
        (last.result # NotRun /\ KeyIdOf(last.req) = PublishedKeyId(u.actorUrl)) =>
            /\ last.result.error
                  # "Actor not found or has no public key: " \o PublishedKeyId(u.actorUrl)
            /\ last.req = SignedRequest("", PrivateOf(u.publicKey), PublishedKeyId(u.actorUrl),
                                        StandardNames)
                  => last.result.verified

\* what does hold (not the claim): the same request under the actor URL
\* itself as keyId is verified
ActorUrlResolves ==
    \A u \in Users :
        (last.result # NotRun
           /\ last.req = SignedRequest("", PrivateOf(u.publicKey), u.actorUrl, StandardNames))
            => last.result.verified /\ last.result.keyId = u.actorUrl

----------------------------------------------------------------------------
(* Properties of two runs *)

\* C21: the verification verdict does not depend on the request body: two
\* inbound requests with the same method, path, headers (Digest and
\* Signature included) and the same stored keys get the same result from
\* verifySignature whatever their bodies are; the Digest header is checked
\* as a signed header value only, never against a hash of the received body.
C21_VerdictIgnoresBody ==
    twin.second # NoRun => twin.second.result = twin.first.result

\* two requests that differ in the body only were both verified and both
\* reached the handler, so one of them with a Digest header that is not the
\* digest of its body
C21_Witness ==
    /\ twin.second # NoRun
    /\ twin.second.req.body # twin.first.req.body
    /\ twin.first.result.verified
    /\ twin.second.result.verified
    /\ last.req = twin.second.req
    /\ last.ran
    /\ \E run \in {twin.first, twin.second} :
           run.req.headers["digest"] # "SHA-256=" \o BodyHash(run.req.body)

\* C22: inbox processing does not depend on who signed: for a request that
\* passed verification the transition applied to the tables (creating,
\* accepting or deleting the relationship the activity names, storing the
\* Note) is determined by the activity alone and is the same for every
\* verified keyId; the verified keyId is never compared with the activity's
\* actor or with the follower and following named in an Accept, Reject or Undo.
C22_TransitionIgnoresSigner ==
    twin.second # NoRun => twin.second.post = twin.first.post

\* an Accept of rita's Follow of alice changed the row when alice's key had
\* verified, and equally when bob's had: bob is not the actor of the Accept
\* and neither the follower nor the following
C22_Witness ==
    /\ twin.second # NoRun
    /\ twin.first.result.keyId = AliceUrl
    /\ twin.second.result.keyId = BobUrl
    /\ twin.second.req.body.type = "Accept"
    /\ twin.second.req.body.actor = AliceUrl
    /\ twin.second.post # twin.second.pre

====
